---- MODULE Spec2Model ----
(***************************************************************************)
(* system-backup: a config-driven rsync launcher (src/src/main.rs).        *)
(*                                                                         *)
(* The model follows main(): for every sync entry of the config the source *)
(* path is resolved, the exclude globs are compiled, the seven ignore      *)
(* toggles are resolved, the source tree is walked and one rsync command   *)
(* is built per walker entry; the command is printed (--dry-run) or        *)
(* spawned, its stdout drained by the main flow while a spawned task waits *)
(* for the exit status and hands it over through a oneshot channel.        *)
(*                                                                         *)
(* Paths and glob patterns are sequences of one-character strings.         *)
(***************************************************************************)
EXTENDS Integers, Sequences, FiniteSets, TLC

VARIABLES
    config,     \* Config: [general, sync]                       (main.rs:149-153,166)
    args,       \* Cli: [dry_run, rsync_dry_run]                 (main.rs:39-52,173)
    pc,         \* position of the main flow
    idx,        \* 1-based index of the sync entry of `for sync in &config.sync`
    excludes,   \* the HashSet `excludes` of the current iteration (main.rs:247)
    walkopts,   \* the seven values handed to WalkBuilder        (main.rs:320-327)
    pending,    \* what the walker has still to yield            (main.rs:330)
    log,        \* commands built so far, printed or spawned     (main.rs:331-352)
    procs,      \* spawned children with their task and channel  (main.rs:348-367)
    reported,   \* last "rsync exited with code" line            (main.rs:377)
    err         \* the error main() returned with, if any

vars == <<config, args, pc, idx, excludes, walkopts, pending, log, procs, reported, err>>

----------------------------------------------------------------------------
(* Bounds of the model *)

\* longest `sync` array of a config
MaxSync == 2
\* most lines a child writes to its stdout
MaxLines == 2
\* lines the stdout pipe buffers before the child's write blocks
PipeCap == 1
\* most Option fields set over both layers when toggle resolution is checked alone
MaxSetToggles == 3

----------------------------------------------------------------------------
(* Option<bool>: <<>> is None, <<b>> is Some(b) *)

None == <<>>
Some(b) == <<b>>
OptBool == {None, Some(TRUE), Some(FALSE)}

\* the fields of IgnoreSettings
Toggles == {"hidden", "parents", "ignore", "git_ignore", "git_global",
            "git_exclude", "same_file_system"}

\* IgnoreSettings::default(): every field None
IgnoreDefault == [t \in Toggles |-> None]

With(is, t, b) == [is EXCEPT ![t] = Some(b)]

----------------------------------------------------------------------------
(* The file system the run sees *)

HOME == <<"/", "h">>
pS   == <<"/", "h", "/", "s">>
pSa  == <<"/", "h", "/", "s", "/", "a">>
pSc  == <<"/", "h", "/", "s", "/", ".", "c">>
pSd  == <<"/", "h", "/", "s", "/", "d">>
pSdb == <<"/", "h", "/", "s", "/", "d", "/", "b">>
pT   == <<"/", "h", "/", "t">>
pTu  == <<"/", "h", "/", "t", "/", "u">>

Nodes == {pS, pSa, pSc, pSd, pSdb, pT, pTu}

IsDir(p) == p \in {pS, pSd, pT, pTu}

\* directory listing, in the order read_dir returns it
Children(p) ==
    IF p = pS THEN <<pSa, pSc, pSd>>
    ELSE IF p = pSd THEN <<pSdb>>
    ELSE IF p = pT THEN <<pTu>>
    ELSE <<>>

\* a directory whose read_dir fails (permission denied)
Readable(p) == p # pTu

\* the ignore rule that lists the path, "none" when no rule does
Rule(p) == IF p = pSdb THEN "git_ignore" ELSE "none"

\* the process environment plus the two injected variables
Variables == [HOME |-> HOME, timestamp |-> <<"0">>, hostname |-> <<"n">>]

----------------------------------------------------------------------------
(* Path expressions (varpath) and paths *)

\* a VarPath is a sequence of segments, each a variable reference or literal text
Var(name) == [var |-> name, lit |-> <<>>]
Lit(chars) == [var |-> "", lit |-> chars]

\* VarPath::eval: every reference replaced by its value; an undefined one is an error
RECURSIVE Eval(_)
Eval(expr) ==
    IF expr = <<>> THEN [ok |-> TRUE, path |-> <<>>]
    ELSE LET seg == Head(expr)
             rest == Eval(Tail(expr))
         IN IF seg.var # "" /\ seg.var \notin DOMAIN Variables
            THEN [ok |-> FALSE, path |-> <<>>]
            ELSE IF ~rest.ok THEN rest
            ELSE [ok |-> TRUE,
                  path |-> (IF seg.var # "" THEN Variables[seg.var] ELSE seg.lit)
                           \o rest.path]

\* default_relative_to(): "${HOME}"
DefaultRelativeTo == <<Var("HOME")>>

IsRelative(p) == p = <<>> \/ Head(p) # "/"

\* PathBuf::join
Join(base, p) ==
    IF ~IsRelative(p) THEN p
    ELSE IF base # <<>> /\ base[Len(base)] = "/" THEN base \o p
    ELSE base \o <<"/">> \o p

\* the file name of a path: what follows its last separator
RECURSIVE FileName(_)
FileName(p) ==
    IF p = <<>> THEN <<>>
    ELSE IF \E i \in 2..Len(p) : p[i] = "/" THEN FileName(Tail(p))
    ELSE IF Head(p) = "/" THEN Tail(p) ELSE p

IsHidden(p) == FileName(p) # <<>> /\ Head(FileName(p)) = "."

----------------------------------------------------------------------------
(* Settings resolution *)

\* the mutant: the general settings win over the sync entry
ResolveGeneralFirst(s, g) ==
    IF g # None THEN g[1] ELSE IF s # None THEN s[1] ELSE TRUE

\* match sync { Some(b) => b, None => match general { Some(b) => b, None => true } }
Resolve(s, g) ==
    IF s # None THEN s[1] ELSE IF g # None THEN g[1] ELSE TRUE

\* the seven resolutions of one loop iteration, each from its own two fields
ResolveAll(syncIs, generalIs) ==
    [hidden           |-> Resolve(syncIs.hidden, generalIs.hidden),
     parents          |-> Resolve(syncIs.parents, generalIs.parents),
     ignore           |-> Resolve(syncIs.ignore, generalIs.ignore),
     git_ignore       |-> Resolve(syncIs.git_ignore, generalIs.git_ignore),
     git_global       |-> Resolve(syncIs.git_global, generalIs.git_global),
     git_exclude      |-> Resolve(syncIs.git_exclude, generalIs.git_exclude),
     same_file_system |-> Resolve(syncIs.same_file_system, generalIs.same_file_system)]

Range(seq) == {seq[i] : i \in 1..Len(seq)}

\* the mutant: the general patterns are left out
ExcludeSetSyncOnly(syncExclude, generalExclude) == Range(syncExclude)

\* a fresh HashSet, the entry's patterns inserted, then the general ones
ExcludeSet(syncExclude, generalExclude) ==
    Range(syncExclude) \cup Range(generalExclude)

----------------------------------------------------------------------------
(* Globs (globset) *)

\* Glob::new: a character class that is never closed is a parse error
RECURSIVE GlobOk(_)
GlobOk(pat) ==
    IF pat = <<>> THEN TRUE
    ELSE IF Head(pat) = "["
         THEN \E i \in 2..Len(pat) : pat[i] = "]"
         ELSE GlobOk(Tail(pat))

\* Glob::is_match on the whole string; `*` also matches separators
RECURSIVE GlobMatch(_, _)
GlobMatch(pat, str) ==
    IF pat = <<>> THEN str = <<>>
    ELSE IF Head(pat) = "*"
         THEN GlobMatch(Tail(pat), str)
              \/ (str # <<>> /\ GlobMatch(pat, Tail(str)))
    ELSE IF Head(pat) = "?"
         THEN str # <<>> /\ GlobMatch(Tail(pat), Tail(str))
    ELSE str # <<>> /\ Head(str) = Head(pat) /\ GlobMatch(Tail(pat), Tail(str))

\* GlobSet::is_match
GlobSetMatch(globs, str) == \E g \in globs : GlobMatch(g, str)

\* exclude_filter: keep the entry iff no glob matches its full path
ExcludeFilter(globs, p) == ~GlobSetMatch(globs, p)

----------------------------------------------------------------------------
(* The walker (ignore::Walk built by WalkBuilder) *)

\* an ignore rule applies when its toggle is on
IgnoredByRule(p, opts) == Rule(p) # "none" /\ opts[Rule(p)]

\* Walk::skip_entry: the root (depth 0) is never skipped; below it hidden names,
\* ignore rules and the filter_entry predicate each drop an entry
SkipEntry(p, depth, opts, globs) ==
    /\ depth > 0
    /\ \/ opts.hidden /\ IsHidden(p)
       \/ IgnoredByRule(p, opts)
       \/ ~ExcludeFilter(globs, p)

Ok(p) == [ok |-> TRUE, path |-> p]
WalkErr == [ok |-> FALSE, path |-> <<>>]

\* depth-first: an entry that is kept is yielded, a kept directory is descended
\* into, a directory that cannot be read yields an error after itself
RECURSIVE WalkFrom(_, _, _, _)
RECURSIVE WalkList(_, _, _, _)
WalkFrom(p, depth, opts, globs) ==
    IF SkipEntry(p, depth, opts, globs) THEN <<>>
    ELSE <<Ok(p)>> \o
         (IF ~IsDir(p) THEN <<>>
          ELSE IF ~Readable(p) THEN <<WalkErr>>
          ELSE WalkList(Children(p), depth + 1, opts, globs))
WalkList(ps, depth, opts, globs) ==
    IF ps = <<>> THEN <<>>
    ELSE WalkFrom(Head(ps), depth, opts, globs)
         \o WalkList(Tail(ps), depth, opts, globs)

Walk(root, opts, globs) == WalkFrom(root, 0, opts, globs)

----------------------------------------------------------------------------
(* Configurations and command lines the run may be given *)

PatA   == <<"*", "a">>
PatB   == <<"*", "b">>
PatS   == <<"*", "s">>
PatBad == <<"[", "a">>

\* [general] of the config file: absent, or a table
GeneralPool ==
    { None,
      Some([exclude |-> <<PatA>>,
            relative_to |-> DefaultRelativeTo,
            ignore_settings |-> With(IgnoreDefault, "hidden", FALSE)]),
      Some([exclude |-> <<>>,
            relative_to |-> <<Var("BACKUP_ROOT"), Lit(<<"/">>)>>,
            ignore_settings |-> IgnoreDefault]) }

\* [[sync]] tables
SyncPool ==
    { [path |-> <<"s">>, exclude |-> <<PatS>>, ignore_settings |-> IgnoreDefault],
      [path |-> pS, exclude |-> <<PatB, PatA, PatB>>,
       ignore_settings |-> With(IgnoreDefault, "git_ignore", FALSE)],
      [path |-> <<"s">>, exclude |-> <<PatBad>>, ignore_settings |-> IgnoreDefault],
      [path |-> <<"t">>, exclude |-> <<>>, ignore_settings |-> IgnoreDefault] }

SyncLists == UNION {[1..n -> SyncPool] : n \in 1..MaxSync}

Configs == {[general |-> g, sync |-> s] : g \in GeneralPool, s \in SyncLists}

\* --dry-run and --rsync-dry-run are in one clap group: never both
Clis == {a \in [dry_run : BOOLEAN, rsync_dry_run : BOOLEAN] :
            ~(a.dry_run /\ a.rsync_dry_run)}

\* GeneralSettings::default() when the table is absent
GeneralSettings(cfg) ==
    IF cfg.general = None
    THEN [exclude |-> <<>>, relative_to |-> DefaultRelativeTo,
          ignore_settings |-> IgnoreDefault]
    ELSE cfg.general[1]

----------------------------------------------------------------------------
(* Children: what a spawned rsync will do *)

NoCode == <<>>
\* ExitStatus::code(): Some(code), or None for a child killed by a signal
Statuses == {[code |-> <<0>>], [code |-> <<23>>], [code |-> NoCode]}

\* stdout lines: "ok" is valid UTF-8, "bad" makes next_line() fail; nothing is
\* read after the first bad line, so one bad line at most is told apart
OkLines(n) == [i \in 1..n |-> "ok"]
LineSeqs == {OkLines(n) : n \in 0..MaxLines}
            \cup {[OkLines(n) EXCEPT ![b] = "bad"] : n \in 1..MaxLines, b \in 1..MaxLines}

Fates == {[lines |-> l, status |-> st, waitOk |-> TRUE] : l \in LineSeqs, st \in Statuses}
         \cup {[lines |-> l, status |-> [code |-> NoCode], waitOk |-> FALSE] : l \in LineSeqs}

\* cmd.spawn(), oneshot::channel(), tokio::spawn: the child with its pipe, the
\* waiting task and both ends of the channel
NewProc(fate) ==
    [child  |-> "running",
     lines  |-> fate.lines,
     todo   |-> fate.lines,
     pipe   |-> <<>>,
     closed |-> FALSE,
     reader |-> "open",
     got    |-> 0,
     status |-> fate.status,
     waitOk |-> fate.waitOk,
     task   |-> "waiting",
     tx     |-> "open",
     rx     |-> "open",
     slot   |-> <<>>,
     sent   |-> 0]

NoErr == [cause |-> "none", sync |-> 0]
NoReport == [cmd |-> 0, code |-> 0]

Destination == "u@10.0.0.1:/b/"

\* the argument vector of the rsync command
Argv(a, src) ==
    <<"--archive", "--verbose", "--compress">>
    \o (IF a.rsync_dry_run THEN <<"--dry-run">> ELSE <<>>)
    \o <<src, Destination>>

----------------------------------------------------------------------------
(* Helpers of the main flow *)

\* the source directory of a sync entry: a relative path is joined to the
\* evaluated relative_to, then the path is canonicalized (it has to exist)
Source(cfg, sync) ==
    LET base == Eval(GeneralSettings(cfg).relative_to)
    IN IF IsRelative(sync.path) /\ ~base.ok
       THEN [ok |-> FALSE, cause |-> "eval", path |-> <<>>]
       ELSE LET abs == IF IsRelative(sync.path) THEN Join(base.path, sync.path)
                       ELSE sync.path
            IN IF abs \in Nodes
               THEN [ok |-> TRUE, cause |-> "none", path |-> abs]
               ELSE [ok |-> FALSE, cause |-> "canonicalize", path |-> <<>>]

\* the mutant: the error is swallowed and the loop goes on with the next entry
ErrNextSkip(i) == [pc |-> "loop", idx |-> i + 1]

\* `?` and bail!: main() returns the error, nothing runs after it
ErrNext(i) == [pc |-> "failed", idx |-> i]

\* the mutant: the wrong flag is tested
ExecutesUnlessRsyncDry(a) == ~a.rsync_dry_run

\* `if dry_run { println } else { spawn ... }`
Executes(a) == ~a.dry_run

\* the mutant: end of stream is taken as soon as no line is buffered
AtEofNoWait(p) == p.pipe = <<>>

\* next_line() returns None: nothing buffered and the write end is closed
AtEof(p) == p.pipe = <<>> /\ p.closed

\* the mutant: the status is not awaited, the loop goes on
AfterEofSkip == "walk"

\* after the while-let loop comes `rx.await`
AfterEof == "recv"

\* the mutant: only a zero status counts as a status
HasCodeOnlyZero(status) == status.code = <<0>>

\* `let Some(code) = status.code() else { bail!(..) }`
HasCode(status) == status.code # NoCode

\* the index in `log` of the command the main flow is busy with
Cur == Len(log)

\* what the end of a loop iteration drops: the channel whose value was taken
Live(ps) == [k \in {j \in DOMAIN ps : ps[j].rx # "received"} |-> ps[k]]

\* main() returning drops its locals: the line reader and the receiver
DropLocals(ps) ==
    [k \in DOMAIN ps |->
        IF k = Cur /\ pc \in {"drain", "recv"}
        THEN [ps[k] EXCEPT !.reader = "dropped",
                           !.rx = IF @ = "open" THEN "dropped" ELSE @]
        ELSE ps[k]]

\* an error at entry idx: recorded, and control goes where ErrNext says
Fail(cause) ==
    /\ err' = [cause |-> cause, sync |-> idx]
    /\ pc' = ErrNext(idx).pc
    /\ idx' = ErrNext(idx).idx

----------------------------------------------------------------------------
(* Init: the state when main() reaches the loop over the sync entries *)

Init ==
    /\ config \in Configs
    /\ args \in Clis
    /\ pc = "loop"
    /\ idx = 1
    /\ excludes = {}
    /\ walkopts = <<>>
    /\ pending = <<>>
    /\ log = <<>>
    /\ procs = <<>>
    /\ reported = NoReport
    /\ err = NoErr

----------------------------------------------------------------------------
(* The loop over the sync entries, up to the walker being built *)

\* relative_to.eval(..)? or canonicalize()? fails
SyncPathFail ==
    /\ pc = "loop" /\ idx <= Len(config.sync)
    /\ LET src == Source(config, config.sync[idx])
       IN /\ ~src.ok
          /\ Fail(src.cause)
    /\ UNCHANGED <<config, args, excludes, walkopts, pending, log, procs, reported>>

\* Glob::new(e)? fails on one of the collected patterns
SyncGlobFail ==
    /\ pc = "loop" /\ idx <= Len(config.sync)
    /\ LET sync == config.sync[idx]
           set == ExcludeSet(sync.exclude, GeneralSettings(config).exclude)
       IN /\ Source(config, sync).ok
          /\ \E e \in set : ~GlobOk(e)
          /\ excludes' = set
          /\ Fail("glob")
    /\ UNCHANGED <<config, args, walkopts, pending, log, procs, reported>>

\* the globs compile: the toggles are resolved and the walker is built
SyncWalk ==
    /\ pc = "loop" /\ idx <= Len(config.sync)
    /\ LET sync == config.sync[idx]
           src == Source(config, sync)
           set == ExcludeSet(sync.exclude, GeneralSettings(config).exclude)
           opts == ResolveAll(sync.ignore_settings,
                              GeneralSettings(config).ignore_settings)
       IN /\ src.ok
          /\ \A e \in set : GlobOk(e)
          /\ excludes' = set
          /\ walkopts' = opts
          /\ pending' = Walk(src.path, opts, set)
    /\ pc' = "walk"
    /\ UNCHANGED <<config, args, idx, log, procs, reported, err>>

\* every entry done: Ok(())
LoopDone ==
    /\ pc = "loop" /\ idx > Len(config.sync)
    /\ pc' = "done"
    /\ UNCHANGED <<config, args, idx, excludes, walkopts, pending, log, procs,
                   reported, err>>

----------------------------------------------------------------------------
(* The loop over the walker's results *)

\* the walker is exhausted: on to the next sync entry
WalkEnd ==
    /\ pc = "walk" /\ pending = <<>>
    /\ pc' = "loop"
    /\ idx' = idx + 1
    /\ procs' = Live(procs)
    /\ UNCHANGED <<config, args, excludes, walkopts, pending, log, reported, err>>

\* `result?` on an entry the walker could not read
WalkFail ==
    /\ pc = "walk" /\ pending # <<>> /\ ~Head(pending).ok
    /\ Fail("walk")
    /\ procs' = Live(procs)
    /\ UNCHANGED <<config, args, excludes, walkopts, pending, log, reported>>

\* --dry-run: the command is printed
DispatchDry ==
    /\ pc = "walk" /\ pending # <<>> /\ Head(pending).ok
    /\ ~Executes(args)
    /\ log' = Append(log, [sync |-> idx, src |-> Head(pending).path, exec |-> FALSE,
                           argv |-> Argv(args, Head(pending).path)])
    /\ pending' = Tail(pending)
    /\ procs' = Live(procs)
    /\ UNCHANGED <<config, args, pc, idx, excludes, walkopts, reported, err>>

\* the command is spawned with piped stdout, the waiting task is spawned
DispatchSpawn ==
    /\ pc = "walk" /\ pending # <<>> /\ Head(pending).ok
    /\ Executes(args)
    /\ log' = Append(log, [sync |-> idx, src |-> Head(pending).path, exec |-> TRUE,
                           argv |-> Argv(args, Head(pending).path)])
    /\ pending' = Tail(pending)
    /\ \E fate \in Fates :
          procs' = [k \in DOMAIN Live(procs) \cup {Len(log) + 1} |->
                       IF k = Len(log) + 1 THEN NewProc(fate) ELSE procs[k]]
    /\ pc' = "drain"
    /\ UNCHANGED <<config, args, idx, excludes, walkopts, reported, err>>

\* cmd.spawn() fails: the expect() panics
SpawnFail ==
    /\ pc = "walk" /\ pending # <<>> /\ Head(pending).ok
    /\ Executes(args)
    /\ Fail("spawn")
    /\ procs' = Live(procs)
    /\ UNCHANGED <<config, args, excludes, walkopts, pending, log, reported>>

----------------------------------------------------------------------------
(* The main flow while a child runs *)

\* next_line() returns a line: it is echoed
ReadLine ==
    /\ pc = "drain"
    /\ LET p == procs[Cur]
       IN /\ p.pipe # <<>> /\ Head(p.pipe) = "ok"
          /\ procs' = [procs EXCEPT ![Cur].pipe = Tail(p.pipe), ![Cur].got = p.got + 1]
    /\ UNCHANGED <<config, args, pc, idx, excludes, walkopts, pending, log, reported, err>>

\* next_line() returns an error (`?`): main() returns with it
ReadFail ==
    /\ pc = "drain"
    /\ LET p == procs[Cur]
       IN p.pipe # <<>> /\ Head(p.pipe) = "bad"
    /\ procs' = DropLocals(procs)
    /\ Fail("read")
    /\ UNCHANGED <<config, args, excludes, walkopts, pending, log, reported>>

\* next_line() returns None: the loop ends
ReadEof ==
    /\ pc = "drain"
    /\ AtEof(procs[Cur])
    /\ pc' = AfterEof
    /\ UNCHANGED <<config, args, idx, excludes, walkopts, pending, log, procs,
                   reported, err>>

\* rx.await yields a status with an exit code: it is printed
RecvCode ==
    /\ pc = "recv"
    /\ LET p == procs[Cur]
       IN /\ p.slot # <<>>
          /\ HasCode(p.slot[1])
          /\ reported' = [cmd |-> Cur, code |-> p.slot[1].code[1]]
          /\ procs' = [procs EXCEPT ![Cur].rx = "received"]
    /\ pc' = "walk"
    /\ UNCHANGED <<config, args, idx, excludes, walkopts, pending, log, err>>

\* rx.await yields a status without an exit code: bail!
RecvNoCode ==
    /\ pc = "recv"
    /\ LET p == procs[Cur]
       IN /\ p.slot # <<>>
          /\ ~HasCode(p.slot[1])
          /\ procs' = [procs EXCEPT ![Cur].rx = "received", ![Cur].reader = "dropped"]
    /\ Fail("nocode")
    /\ UNCHANGED <<config, args, excludes, walkopts, pending, log, reported>>

\* rx.await yields Err: the sender was dropped without a value: bail!
RecvErr ==
    /\ pc = "recv"
    /\ LET p == procs[Cur]
       IN p.slot = <<>> /\ p.tx = "dropped"
    /\ procs' = DropLocals(procs)
    /\ Fail("recv")
    /\ UNCHANGED <<config, args, excludes, walkopts, pending, log, reported>>

----------------------------------------------------------------------------
(* The spawned task: child.wait().await, then tx.send(status).unwrap() *)

\* wait() fails: the expect() panics, the sender is dropped unused
TaskWaitErr(k) ==
    /\ procs[k].task = "waiting" /\ procs[k].child = "exited"
    /\ ~procs[k].waitOk
    /\ procs' = [procs EXCEPT ![k].task = "panicked_wait", ![k].tx = "dropped"]
    /\ UNCHANGED <<config, args, pc, idx, excludes, walkopts, pending, log, reported, err>>

\* the receiver is alive: the status is deposited and the task ends
TaskSend(k) ==
    /\ procs[k].task = "waiting" /\ procs[k].child = "exited"
    /\ procs[k].waitOk
    /\ procs[k].rx = "open"
    /\ procs' = [procs EXCEPT ![k].task = "done", ![k].tx = "used",
                              ![k].slot = <<procs[k].status>>,
                              ![k].sent = procs[k].sent + 1]
    /\ UNCHANGED <<config, args, pc, idx, excludes, walkopts, pending, log, reported, err>>

\* the receiver is gone: send returns Err and the unwrap() panics
TaskSendFail(k) ==
    /\ procs[k].task = "waiting" /\ procs[k].child = "exited"
    /\ procs[k].waitOk
    /\ procs[k].rx # "open"
    /\ procs' = [procs EXCEPT ![k].task = "panicked_send", ![k].tx = "used"]
    /\ UNCHANGED <<config, args, pc, idx, excludes, walkopts, pending, log, reported, err>>

\* main() has returned: the runtime shuts down and drops a task still waiting
Shutdown(k) ==
    /\ pc \in {"done", "failed"}
    /\ procs[k].task = "waiting"
    /\ procs' = [procs EXCEPT ![k].task = "cancelled", ![k].tx = "dropped"]
    /\ UNCHANGED <<config, args, pc, idx, excludes, walkopts, pending, log, reported, err>>

----------------------------------------------------------------------------
(* The child process *)

\* a line goes into the pipe, unless the pipe is full
ChildWrite(k) ==
    /\ procs[k].child = "running" /\ procs[k].todo # <<>>
    /\ procs[k].reader = "open"
    /\ Len(procs[k].pipe) < PipeCap
    /\ procs' = [procs EXCEPT ![k].pipe = Append(@, Head(procs[k].todo)),
                              ![k].todo = Tail(@)]
    /\ UNCHANGED <<config, args, pc, idx, excludes, walkopts, pending, log, reported, err>>

\* the read end is gone: the write fails and the child gives up writing
ChildBrokenPipe(k) ==
    /\ procs[k].child = "running" /\ procs[k].todo # <<>>
    /\ procs[k].reader = "dropped"
    /\ procs' = [procs EXCEPT ![k].todo = <<>>]
    /\ UNCHANGED <<config, args, pc, idx, excludes, walkopts, pending, log, reported, err>>

\* the child closes its stdout
ChildClose(k) ==
    /\ procs[k].child = "running" /\ procs[k].todo = <<>> /\ ~procs[k].closed
    /\ procs' = [procs EXCEPT ![k].closed = TRUE]
    /\ UNCHANGED <<config, args, pc, idx, excludes, walkopts, pending, log, reported, err>>

\* the child terminates
ChildExit(k) ==
    /\ procs[k].child = "running" /\ procs[k].closed
    /\ procs' = [procs EXCEPT ![k].child = "exited"]
    /\ UNCHANGED <<config, args, pc, idx, excludes, walkopts, pending, log, reported, err>>

----------------------------------------------------------------------------

MainStep ==
    \/ SyncPathFail \/ SyncGlobFail \/ SyncWalk \/ LoopDone
    \/ WalkEnd \/ WalkFail \/ DispatchDry \/ DispatchSpawn \/ SpawnFail
    \/ ReadLine \/ ReadFail \/ ReadEof
    \/ RecvCode \/ RecvNoCode \/ RecvErr

TaskStep == \E k \in DOMAIN procs : TaskWaitErr(k) \/ TaskSend(k) \/ TaskSendFail(k)

RuntimeStep == \E k \in DOMAIN procs : Shutdown(k)

ChildStep ==
    \E k \in DOMAIN procs :
        ChildWrite(k) \/ ChildBrokenPipe(k) \/ ChildClose(k) \/ ChildExit(k)

Next == MainStep \/ TaskStep \/ RuntimeStep \/ ChildStep

Spec == Init /\ [][Next]_vars

\* the join of one child does not depend on how many sync entries there are:
\* the runs with fairness start from the configs with a single sync entry
InitFair == Init /\ Len(config.sync) = 1

\* the scheduler runs every task that can run, and the child keeps running
FairSpec ==
    /\ InitFair /\ [][Next]_vars
    /\ WF_vars(MainStep) /\ WF_vars(TaskStep) /\ WF_vars(RuntimeStep)
    /\ WF_vars(ChildStep)

----------------------------------------------------------------------------
(* Toggle resolution on its own: one sync entry, every choice of the fourteen *)
(* Option fields with at most MaxSetToggles of them set                      *)

SetCount(is) == Cardinality({t \in Toggles : is[t] # None})

IgnoreChoices == {is \in [Toggles -> OptBool] : SetCount(is) <= MaxSetToggles}

InitResolve ==
    /\ \E s \in IgnoreChoices, g \in IgnoreChoices :
          /\ SetCount(s) + SetCount(g) <= MaxSetToggles
          /\ config = [general |-> Some([exclude |-> <<>>,
                                         relative_to |-> DefaultRelativeTo,
                                         ignore_settings |-> g]),
                       sync |-> <<[path |-> <<"s">>, exclude |-> <<>>,
                                   ignore_settings |-> s]>>]
    /\ args = [dry_run |-> TRUE, rsync_dry_run |-> FALSE]
    /\ pc = "loop"
    /\ idx = 1
    /\ excludes = {}
    /\ walkopts = <<>>
    /\ pending = <<>>
    /\ log = <<>>
    /\ procs = <<>>
    /\ reported = NoReport
    /\ err = NoErr

SpecResolve == InitResolve /\ [][SyncWalk]_vars

----------------------------------------------------------------------------
(* Properties *)

\* the walker of the current sync entry exists
WalkerBuilt == pc \in {"walk", "drain", "recv"}

CurSync == config.sync[idx]

\* C1: each of the seven values handed to the walker is the sync entry's value of
\* that toggle when set, else the general settings' value of that toggle when
\* set, else true; no other toggle's fields enter into it
C1_ToggleResolution ==
    WalkerBuilt =>
        \A t \in Toggles :
            LET s == CurSync.ignore_settings[t]
                g == GeneralSettings(config).ignore_settings[t]
            IN /\ s = Some(TRUE) => walkopts[t] = TRUE
               /\ s = Some(FALSE) => walkopts[t] = FALSE
               /\ s = None /\ g = Some(TRUE) => walkopts[t] = TRUE
               /\ s = None /\ g = Some(FALSE) => walkopts[t] = FALSE
               /\ s = None /\ g = None => walkopts[t] = TRUE

\* the entry overrides one toggle, inherits a second from the general settings
\* and takes the default for the rest
C1_Witness ==
    /\ WalkerBuilt
    /\ CurSync.ignore_settings.hidden = Some(FALSE)
    /\ GeneralSettings(config).ignore_settings.hidden = Some(TRUE)
    /\ CurSync.ignore_settings.git_ignore = None
    /\ GeneralSettings(config).ignore_settings.git_ignore = Some(FALSE)
    /\ walkopts.hidden = FALSE /\ walkopts.git_ignore = FALSE /\ walkopts.parents = TRUE

Reverse(seq) == [i \in 1..Len(seq) |-> seq[Len(seq) + 1 - i]]

\* the exclude set of the current entry has been built
ExcludesBuilt == WalkerBuilt \/ (pc = "failed" /\ err.cause = "glob")

\* C2: the exclude set of a sync entry holds exactly the patterns that occur in
\* the entry's list or in the general list, each once, whatever the order of the
\* lists and of the patterns in them; no other entry's pattern is in it
C2_ExcludeUnion ==
    ExcludesBuilt =>
        LET own == CurSync.exclude
            gen == GeneralSettings(config).exclude
        IN /\ \A e \in excludes :
                 (\E i \in 1..Len(own) : own[i] = e) \/ (\E i \in 1..Len(gen) : gen[i] = e)
           /\ \A i \in 1..Len(own) : own[i] \in excludes
           /\ \A i \in 1..Len(gen) : gen[i] \in excludes
           /\ excludes = ExcludeSet(gen, own)
           /\ excludes = ExcludeSet(Reverse(own), Reverse(gen))

\* the second entry repeats a pattern, shares one with the general list and the
\* first entry has a pattern of its own
C2_Witness ==
    /\ WalkerBuilt /\ idx = 2
    /\ CurSync.exclude = <<PatB, PatA, PatB>>
    /\ GeneralSettings(config).exclude = <<PatA>>
    /\ config.sync[1].exclude = <<PatS>>
    /\ excludes = {PatA, PatB}

\* the exclude set in force for sync entry i
EffectiveExcludes(i) ==
    Range(config.sync[i].exclude) \cup Range(GeneralSettings(config).exclude)

\* C3: no path handed to the dispatcher, the root of the walk included, matches a
\* glob of its entry's exclude set
C3_NoExcludedPath ==
    \A i \in 1..Len(log) : ~GlobSetMatch(EffectiveExcludes(log[i].sync), log[i].src)

\* the results the walker has yielded for entry i, as the log shows them
Yielded(i) ==
    LET hits == SelectSeq(log, LAMBDA e : e.sync = i)
    IN [j \in 1..Len(hits) |-> Ok(hits[j].src)]

\* C4: with --dry-run no process is spawned, and what has been printed for the
\* current entry, followed by what the walker has still to yield, is the walk:
\* every entry is printed once, in place of execution
C4_DryRunSpawnsNothing ==
    args.dry_run =>
        /\ procs = <<>>
        /\ \A i \in 1..Len(log) : ~log[i].exec
        /\ pc = "walk" =>
              Yielded(idx) \o pending
                  = Walk(Source(config, CurSync).path, walkopts, excludes)
        /\ \A i, j \in 1..Len(log) :
              (i # j /\ log[i].sync = log[j].sync) => log[i].src # log[j].src

C4_Witness ==
    /\ args.dry_run /\ pc = "done"
    /\ Len(log) >= 3
    /\ \E i \in 1..Len(log) : ~IsDir(log[i].src)

\* the run was aborted by a glob that does not compile or a path that does not
\* evaluate
ResolutionError == err.cause \in {"glob", "eval"}

\* C5 as claimed: after such an abort no command has been dispatched at all
C5_NoDispatchAtAll == ResolutionError => log = <<>>

\* C5: after such an abort no command has been dispatched for the faulty entry
\* or for an entry after it, and none is dispatched any more
C5_NoDispatchFromFaulty ==
    ResolutionError => \A i \in 1..Len(log) : log[i].sync < err.sync

\* the second entry is the faulty one and the first has been synced
C5_Witness ==
    /\ pc = "failed" /\ err.cause = "glob" /\ err.sync = 2
    /\ Len(log) >= 2
    /\ \E i \in 1..Len(log) : log[i].exec

\* C6: every dispatched command has a file, never a directory, as its source
C6_SourceIsFile == \A i \in 1..Len(log) : ~IsDir(log[i].src)

\* C7: at most one child is in flight, the commands follow the config order, and
\* a child whose status the main flow has not received is the child of the last
\* command: no command is spawned before that
C7_OneInFlight ==
    /\ Cardinality({k \in DOMAIN procs : procs[k].child = "running"}) <= 1
    /\ \A k \in DOMAIN procs : k = Len(log)
    /\ \A i, j \in 1..Len(log) : i < j => log[i].sync <= log[j].sync
    /\ \A i \in 1..Len(log) : log[i].sync <= idx

\* a second child runs after the status of the first was reported
C7_Witness ==
    /\ Len(log) >= 2
    /\ reported.cmd = Len(log) - 1
    /\ Len(log) \in DOMAIN procs
    /\ procs[Len(log)].child = "running"

Joined(k) == k \in DOMAIN procs /\ procs[k].rx = "received"

\* the child of the current command writes valid lines and exits with a code
NormalChild ==
    /\ pc \in {"drain", "recv"}
    /\ procs[Cur].lines = OkLines(Len(procs[Cur].lines))
    /\ procs[Cur].waitOk
    /\ procs[Cur].status.code # NoCode

C9_JoinSafety ==
    /\ \A k \in DOMAIN procs :
          Joined(k) =>
              /\ procs[k].closed /\ procs[k].pipe = <<>> /\ procs[k].todo = <<>>
              /\ procs[k].got = Len(procs[k].lines)
              /\ procs[k].child = "exited"
              /\ procs[k].task = "done" /\ procs[k].sent = 1
              /\ procs[k].slot = <<procs[k].status>>
    /\ (reported.cmd \in DOMAIN procs) => Joined(reported.cmd)

C10_SendSucceeds ==
    \A k \in DOMAIN procs : procs[k].task # "panicked_send"

====
